---- MODULE Spec2Model ----
(***************************************************************************)
(* Model of backend/main.py: the websocket chat backend.                   *)
(*                                                                         *)
(*   ConnectionManager   the per-user registry of weak references to the   *)
(*                       open websockets, with its asyncio.Lock            *)
(*   MessageProcessor    the rate limiter, the bounded asyncio.Queue and   *)
(*                       the batch-writing background task                 *)
(*   websocket_endpoint  one coroutine per session                         *)
(*                                                                         *)
(* The program runs on one asyncio event loop: a coroutine runs without    *)
(* interruption from one await that suspends to the next.  Every action    *)
(* below is one such uninterrupted stretch of the code.                    *)
(***************************************************************************)
EXTENDS Integers, Sequences, FiniteSets, TLC

\* ------------------------------------------------------------------ sizes
\* The limits of the code, scaled down so that the limit cases are reached:
\* main.py:68 allows 5 connections per user, main.py:131 compares the
\* counter with 100, main.py:97 gives the queue 1000 slots, main.py:105
\* drains 10 tasks, main.py:251-262 lists 10 canned replies.  Every formula
\* below is stated in terms of these names.
MaxConnections == 2
RateLimit == 1
QueueMaxsize == 3
BatchSize == 2
NumResponses == 2

\* main.py:127 timedelta(minutes=1); the clock of the model counts minutes.
WindowMinutes == 1
\* models.py:28 String(500)
MaxContentLen == 500
\* main.py:69 and main.py:213 close(code=1008)
PolicyViolation == 1008

\* Bounds of the exploration: the text frames the client of the main session
\* and of each other session sends (and of each session where sessions
\* disconnect), and the minutes that pass.
MaxMsgs == 4
MaxPeerMsgs == 1
MaxDiscMsgs == 2
MaxRaceMsgs == 3
MaxTime == 2

\* ---------------------------------------------------------------- inputs
\* Sessions are the websockets that clients open; SessUser is the user_id
\* in the path of each (main.py:202).  Users 1 and 2 are in the user table
\* (seed.py:16 seeds one user, /users/login creates others), user 3 is not.
Sessions == 1..5
SessUser == <<1, 1, 1, 2, 3>>
Users == {1, 2, 3}
KnownUsers == {1, 2}
\* A text frame is modelled by its length, the one thing the code and the
\* storage look at.
Contents == {MaxContentLen, MaxContentLen + 1}
Responses == 1..NumResponses

VARIABLES
    pc,            \* position of each session's websocket_endpoint coroutine
    connections,   \* ConnectionManager._connections: user -> set of weakrefs
    lock,          \* ConnectionManager._lock: 0 free, else the holder
    collected,     \* the websocket object of the session has been freed
    closeCode,     \* code the server closed the websocket with, 0 if none
    connResult,    \* what ConnectionManager.connect returned
    rate_limits,   \* MessageProcessor.rate_limits
    last_cleanup,  \* MessageProcessor.last_cleanup
    now,           \* datetime.now()
    queue,         \* MessageProcessor.queue
    pp,            \* position of the process_messages task
    batch,         \* process_messages' local list, messages
    cur,           \* the message a session is handling (locals of the loop)
    hist,          \* the text frames each session received, each with the
                   \* result of its add_message call
    admitted,      \* per user, the add_message calls that passed the rate
                   \* check since the counters were last cleared
    nextId,        \* the message table's id sequence
    storage,       \* committed rows of the message table, in commit order
    frames,        \* frames sent to each session, in order
    writes,        \* the batches process_messages committed, in order
    enq            \* every task put on the queue, in the order of the puts

vars == <<pc, connections, lock, collected, closeCode, connResult, rate_limits,
          last_cleanup, now, queue, pp, batch, cur, hist, admitted, nextId, storage,
          frames, writes, enq>>

connVars == <<connections, lock, collected, closeCode, connResult>>
rateVars == <<rate_limits, last_cleanup>>
pipeVars == <<queue, pp, batch, writes, enq>>
dbVars == <<nextId, storage>>

\* The locals of the loop of websocket_endpoint when no message is in hand.
NoMsg == [content |-> 0, seq |-> 0, uid |-> 0, rid |-> 0, reply |-> 0]

Init ==
    /\ pc = [s \in Sessions |-> "new"]
    /\ connections = [u \in Users |-> {}]
    /\ lock = 0
    /\ collected = [s \in Sessions |-> FALSE]
    /\ closeCode = [s \in Sessions |-> 0]
    /\ connResult = [s \in Sessions |-> "none"]
    /\ rate_limits = [u \in Users |-> 0]
    /\ last_cleanup = 0
    /\ now = 0
    /\ queue = <<>>
    /\ pp = "init"
    /\ batch = <<>>
    /\ cur = [s \in Sessions |-> NoMsg]
    /\ hist = [s \in Sessions |-> <<>>]
    /\ admitted = [u \in Users |-> 0]
    /\ nextId = 1
    /\ storage = <<>>
    /\ frames = [s \in Sessions |-> <<>>]
    /\ writes = <<>>
    /\ enq = <<>>

\* ------------------------------------------------------ ConnectionManager
\* A weak reference is dead once its websocket object has been freed.
LiveRefs(refs) == {r \in refs : ~collected[r]}

\* The cap check (main.py:68), and the check with the cap one too high.
OverCapLoose(refs) == Cardinality(refs) > MaxConnections + 1
OverCap(refs) == Cardinality(refs) > MaxConnections

\* The set that disconnect leaves (main.py:75-78): the references that are
\* not to s; and a disconnect that empties the user's set.
RemoveAll(refs, s) == {}
DisconnectRefs(refs, s) == {r \in refs : r # s}

\* The websocket objects that a queued or drained task still references
\* (MessageTask.websocket is a strong reference).
Referenced == {queue[i].websocket : i \in 1..Len(queue)}
              \cup {batch[i].websocket : i \in 1..Len(batch)}

\* websocket.accept() of connect: the coroutine suspends until the accept
\* is sent.  Connections are served once the startup event has run.
Accept(s) ==
    /\ pp # "init"
    /\ pc[s] = "new"
    /\ pc' = [pc EXCEPT ![s] = "accepted"]
    /\ UNCHANGED <<connVars, rateVars, pipeVars, dbVars, now, cur, hist, admitted,
                   frames>>

\* connect, from taking the lock to the cap check.
ConnectLocked(s) ==
    /\ pc[s] = "accepted"
    /\ lock = 0
    /\ LET u == SessUser[s]
           live == LiveRefs(connections[u] \cup {s})
       IN /\ connections' = [connections EXCEPT ![u] = live]
          /\ IF OverCap(live)
             THEN /\ lock' = s
                  /\ pc' = [pc EXCEPT ![s] = "closing"]
                  /\ UNCHANGED connResult
             ELSE /\ lock' = 0
                  /\ pc' = [pc EXCEPT ![s] = "usercheck"]
                  /\ connResult' = [connResult EXCEPT ![s] = "true"]
    /\ UNCHANGED <<collected, closeCode, rateVars, pipeVars, dbVars, now, cur, hist,
                   admitted,
                   frames>>

\* connect over the cap: close(code=1008) under the lock, return False, and
\* websocket_endpoint returns.
CloseOverCap(s) ==
    /\ pc[s] = "closing"
    /\ lock = s
    /\ closeCode' = [closeCode EXCEPT ![s] = PolicyViolation]
    /\ connResult' = [connResult EXCEPT ![s] = "false"]
    /\ lock' = 0
    /\ pc' = [pc EXCEPT ![s] = "ended"]
    /\ UNCHANGED <<connections, collected, rateVars, pipeVars, dbVars, now, cur,
                   hist, admitted,
                   frames>>

\* A lookup that finds a row for any id.
UserKnownAny(u) == TRUE
\* select(User).where(User.id == user_id) finds a row.
UserKnown(u) == u \in KnownUsers

\* The user lookup of websocket_endpoint.
UserCheck(s) ==
    /\ pc[s] = "usercheck"
    /\ IF UserKnown(SessUser[s])
       THEN /\ pc' = [pc EXCEPT ![s] = "receive"]
            /\ UNCHANGED closeCode
       ELSE /\ closeCode' = [closeCode EXCEPT ![s] = PolicyViolation]
            /\ pc' = [pc EXCEPT ![s] = "ended"]
    /\ UNCHANGED <<connections, lock, collected, connResult, rateVars, pipeVars, dbVars,
                   now, cur, hist, admitted, frames>>

\* A disconnect that leaves the registry as it is.
DisconnectedKeep(s) == connections
\* ConnectionManager.disconnect, the body under the lock.
Disconnected(s) ==
    [connections EXCEPT ![SessUser[s]] = DisconnectRefs(@, s)]

\* receive_text raises WebSocketDisconnect: disconnect runs at once when the
\* lock is free, and waits for it otherwise.
RecvDisconnect(s) ==
    /\ pc[s] = "receive"
    /\ IF lock = 0
       THEN /\ connections' = Disconnected(s)
            /\ pc' = [pc EXCEPT ![s] = "ended"]
       ELSE /\ pc' = [pc EXCEPT ![s] = "discwait"]
            /\ UNCHANGED connections
    /\ UNCHANGED <<lock, collected, closeCode, connResult, rateVars, pipeVars, dbVars,
                   now, cur, hist, admitted, frames>>

DisconnectResume(s) ==
    /\ pc[s] = "discwait"
    /\ lock = 0
    /\ connections' = Disconnected(s)
    /\ pc' = [pc EXCEPT ![s] = "ended"]
    /\ UNCHANGED <<lock, collected, closeCode, connResult, rateVars, pipeVars, dbVars,
                   now, cur, hist, admitted, frames>>

\* The websocket object of an ended session is freed at some later time,
\* once nothing references it.
Collect(s) ==
    /\ pc[s] = "ended"
    /\ ~collected[s]
    /\ s \notin Referenced
    /\ collected' = [collected EXCEPT ![s] = TRUE]
    /\ UNCHANGED <<pc, connections, lock, closeCode, connResult, rateVars, pipeVars,
                   dbVars, now, cur, hist, admitted, frames>>

\* ------------------------------------------------------- MessageProcessor
Min(a, b) == IF a < b THEN a ELSE b

\* A drain that loses the task behind the ones it takes.
SubSeqSkip(q, n) == SubSeq(q, n + 2, Len(q))
\* What get_nowait leaves in the queue after n calls.
SubSeqFrom(q, n) == SubSeq(q, n + 1, Len(q))

\* A drain without the limit of the inner loop.
DrainAll(q) == Len(q)
\* The inner loop of process_messages: get_nowait until 10 are taken or the
\* queue is empty.
DrainCount(q) == Min(Len(q), BatchSize)

\* One pass of the loop of process_messages up to its next await: an empty
\* drain sleeps, any other goes on to the write.
DrainStep ==
    LET n == DrainCount(queue)
    IN /\ batch' = SubSeq(queue, 1, n)
       /\ queue' = SubSeqFrom(queue, n)
       /\ pp' = IF n = 0 THEN "sleep" ELSE "write"

\* startup_event: create_task(process_messages()), and the task's first pass.
Startup ==
    /\ pp = "init"
    /\ DrainStep
    /\ UNCHANGED <<pc, connVars, rateVars, dbVars, now, cur, hist, admitted, frames,
                   writes, enq>>

\* asyncio.sleep(0.01) returns; continue.
Wake ==
    /\ pp = "sleep"
    /\ DrainStep
    /\ UNCHANGED <<pc, connVars, rateVars, dbVars, now, cur, hist, admitted, frames,
                   writes, enq>>

\* ---- add_message (main.py:124-136)
WindowExpired(t, lc) == t - lc > WindowMinutes

\* A reset of the calling user's counter alone.
ClearCaller(rl, u) == [rl EXCEPT ![u] = 0]
\* rate_limits.clear(): every user's counter is gone, and reads as 0.
ClearLimits(rl, u) == [x \in Users |-> 0]

\* A check that refuses nothing.
RateNeverExceeded(n) == FALSE
\* rate_limits[task.user_id] > 100
RateExceeded(n) == n > RateLimit

\* A put at the head of the queue.
EnqueueFront(q, t) == <<t>> \o q
\* Queue.put appends at the tail.
Enqueue(q, t) == Append(q, t)

\* The increment moved before the check.
CountThenCheck(rl, u) ==
    LET inc == [rl EXCEPT ![u] = @ + 1]
    IN [ok |-> ~RateExceeded(inc[u]), rl |-> inc]
\* The rate check and the increment: the call's result and the counters it
\* leaves.
CheckAndCount(rl, u) ==
    IF RateExceeded(rl[u])
    THEN [ok |-> FALSE, rl |-> rl]
    ELSE [ok |-> TRUE, rl |-> [rl EXCEPT ![u] = @ + 1]]

\* A queue that never reports full.
FullNever(q) == FALSE
\* Queue.full() of a queue made with maxsize=1000.
Full(q) == Len(q) >= QueueMaxsize

\* The MessageTask of websocket_endpoint, without its timestamp, which no
\* code reads but the batch insert, to copy it into the row.  seq numbers the
\* session's text frames and is not part of the program's task.
Task(s, c) ==
    [user_id |-> SessUser[s], content |-> c, websocket |-> s, seq |-> Len(hist[s]) + 1]

\* The same task, from the locals of a session that is handling it.
TaskOf(s) ==
    [user_id |-> SessUser[s], content |-> cur[s].content, websocket |-> s,
     seq |-> cur[s].seq]

\* `break` in place of `continue`.
AfterRejectBreak == "ended"
\* `continue` after the error frame (main.py:234).
AfterReject == "receive"

\* receive_text returns a text frame and add_message runs up to its first
\* suspension: to the return False, to the end of a put that finds a free
\* slot, or to the wait of a put that finds the queue full.
RecvText(s, c, max) ==
    /\ pc[s] = "receive"
    /\ Len(hist[s]) < max
    /\ LET u == SessUser[s]
           expired == WindowExpired(now, last_cleanup)
           rl0 == IF expired THEN ClearLimits(rate_limits, u) ELSE rate_limits
           res == CheckAndCount(rl0, u)
           adm0 == IF expired THEN [x \in Users |-> 0] ELSE admitted
           task == Task(s, c)
       IN /\ last_cleanup' = IF expired THEN now ELSE last_cleanup
          /\ rate_limits' = res.rl
          /\ hist' = [hist EXCEPT ![s] = Append(@, [content |-> c, ok |-> res.ok])]
          /\ IF ~res.ok
             THEN /\ pc' = [pc EXCEPT ![s] = "senderr"]
                  /\ admitted' = adm0
                  /\ UNCHANGED <<queue, enq, cur>>
             ELSE /\ admitted' = [adm0 EXCEPT ![u] = @ + 1]
                  /\ cur' = [cur EXCEPT ![s] = [NoMsg EXCEPT !.content = c,
                                                             !.seq = task.seq]]
                  /\ IF ~Full(queue)
                     THEN /\ queue' = Enqueue(queue, task)
                          /\ enq' = Append(enq, task)
                          /\ pc' = [pc EXCEPT ![s] = "flush_user"]
                     ELSE /\ pc' = [pc EXCEPT ![s] = "put"]
                          /\ UNCHANGED <<queue, enq>>
    /\ UNCHANGED <<connVars, dbVars, now, pp, batch, writes, frames>>

\* A put that waited finds a free slot; add_message returns True.
PutResume(s) ==
    /\ pc[s] = "put"
    /\ ~Full(queue)
    /\ queue' = Enqueue(queue, TaskOf(s))
    /\ enq' = Append(enq, TaskOf(s))
    /\ pc' = [pc EXCEPT ![s] = "flush_user"]
    /\ UNCHANGED <<connVars, rateVars, dbVars, now, pp, batch, writes, cur, hist,
                   admitted, frames>>

\* ---- websocket_endpoint, the synchronous path (main.py:236-281)
\* A row of the message table.  ws, seq and path say which text frame the row
\* was written for and by which path; the table does not hold them.
Row(id, u, c, fromUser, s, q, path) ==
    [id |-> id, user_id |-> u, content |-> c, is_from_user |-> fromUser,
     ws |-> s, seq |-> q, path |-> path]

\* The storage rejects a content longer than the column (String(500)).
Storable(c) == c <= MaxContentLen

\* session.add(user_msg); flush(): the row gets its id.
FlushUser(s) ==
    /\ pc[s] = "flush_user"
    /\ Storable(cur[s].content)
    /\ cur' = [cur EXCEPT ![s].uid = nextId]
    /\ nextId' = nextId + 1
    /\ pc' = [pc EXCEPT ![s] = "flush_reply"]
    /\ UNCHANGED <<connVars, rateVars, pipeVars, storage, now, hist, admitted, frames>>

\* The flush of a content the column cannot hold raises; the exception is
\* not a WebSocketDisconnect and ends websocket_endpoint.
FlushFail(s) ==
    /\ pc[s] = "flush_user"
    /\ ~Storable(cur[s].content)
    /\ pc' = [pc EXCEPT ![s] = "ended"]
    /\ UNCHANGED <<connVars, rateVars, pipeVars, dbVars, now, cur, hist, admitted,
                   frames>>

\* random.choice(test_responses); session.add(assistant_msg); flush().
FlushReply(s, r) ==
    /\ pc[s] = "flush_reply"
    /\ cur' = [cur EXCEPT ![s].rid = nextId, ![s].reply = r]
    /\ nextId' = nextId + 1
    /\ pc' = [pc EXCEPT ![s] = "commit"]
    /\ UNCHANGED <<connVars, rateVars, pipeVars, storage, now, hist, admitted, frames>>

\* A commit that makes the reply row durable and not the user row.
CommitReplyOnly(s) ==
    /\ pc[s] = "commit"
    /\ storage' = storage \o
          << Row(cur[s].rid, SessUser[s], cur[s].reply, FALSE, s, cur[s].seq, "sync") >>
    /\ pc' = [pc EXCEPT ![s] = "send_user"]
    /\ UNCHANGED <<connVars, rateVars, pipeVars, nextId, now, cur, hist, admitted,
                   frames>>

\* session.commit(): both rows become durable together.
Commit(s) ==
    /\ pc[s] = "commit"
    /\ storage' = storage \o
          << Row(cur[s].uid, SessUser[s], cur[s].content, TRUE, s, cur[s].seq, "sync"),
             Row(cur[s].rid, SessUser[s], cur[s].reply, FALSE, s, cur[s].seq, "sync") >>
    /\ pc' = [pc EXCEPT ![s] = "send_user"]
    /\ UNCHANGED <<connVars, rateVars, pipeVars, nextId, now, cur, hist, admitted,
                   frames>>

\* The frames sent to the client, without their timestamp.
ErrorFrame == [error |-> "Rate limit exceeded"]

ReplyFrame(s) ==
    [id |-> cur[s].rid, user_id |-> SessUser[s], content |-> cur[s].reply,
     is_from_user |-> FALSE]

\* assistant_msg_dict sent in place of user_msg_dict.
ReplyFrameTwice(s) == ReplyFrame(s)
\* user_msg_dict
UserFrame(s) ==
    [id |-> cur[s].uid, user_id |-> SessUser[s], content |-> cur[s].content,
     is_from_user |-> TRUE]

\* manager.send_message(user_msg_dict, websocket)
SendUser(s) ==
    /\ pc[s] = "send_user"
    /\ frames' = [frames EXCEPT ![s] = Append(@, UserFrame(s))]
    /\ pc' = [pc EXCEPT ![s] = "send_reply"]
    /\ UNCHANGED <<connVars, rateVars, pipeVars, dbVars, now, cur, hist, admitted>>

\* manager.send_message(assistant_msg_dict, websocket), and back to
\* receive_text.
SendReply(s) ==
    /\ pc[s] = "send_reply"
    /\ frames' = [frames EXCEPT ![s] = Append(@, ReplyFrame(s))]
    /\ pc' = [pc EXCEPT ![s] = "receive"]
    /\ cur' = [cur EXCEPT ![s] = NoMsg]
    /\ UNCHANGED <<connVars, rateVars, pipeVars, dbVars, now, hist, admitted>>

\* send_json of the rate-limit error, and `continue`.
SendError(s) ==
    /\ pc[s] = "senderr"
    /\ frames' = [frames EXCEPT ![s] = Append(@, ErrorFrame)]
    /\ pc' = [pc EXCEPT ![s] = AfterReject]
    /\ UNCHANGED <<connVars, rateVars, pipeVars, dbVars, now, cur, hist, admitted>>

\* ---- process_messages, the write (main.py:113-122)
\* An insert that stores no row.
BatchRowsNone(b, id) == <<>>
RECURSIVE BatchRows(_, _)
\* The rows of add_all, with the ids the insert gives them.
BatchRows(b, id) ==
    IF b = <<>> THEN <<>>
    ELSE <<Row(id, Head(b).user_id, Head(b).content, TRUE, Head(b).websocket,
               Head(b).seq, "batch")>> \o BatchRows(Tail(b), id + 1)

AllStorable(b) == \A i \in 1..Len(b) : Storable(b[i].content)

\* session.commit() of the batch succeeds; the loop goes round: messages is
\* rebound to a new list and the queue is drained again.
WriteBatch ==
    /\ pp = "write"
    /\ AllStorable(batch)
    /\ storage' = storage \o BatchRows(batch, nextId)
    /\ nextId' = nextId + Len(batch)
    /\ writes' = Append(writes, batch)
    /\ DrainStep
    /\ UNCHANGED <<pc, connVars, rateVars, now, cur, hist, admitted, frames, enq>>

\* The commit raises: no row of the batch is stored, and nothing in
\* process_messages catches the exception, so the task ends.
WriteBatchFail ==
    /\ pp = "write"
    /\ ~AllStorable(batch)
    /\ pp' = "dead"
    /\ batch' = <<>>
    /\ UNCHANGED <<pc, connVars, rateVars, dbVars, now, cur, hist, admitted, frames,
                   queue, writes, enq>>

\* ---- failures of the storage
\* A storage call of the synchronous block (a flush or the commit) raises:
\* the transaction is rolled back as the AsyncSession block is left, and the
\* exception, which is not a WebSocketDisconnect, ends websocket_endpoint.
SyncWriteFail(s) ==
    /\ pc[s] \in {"flush_user", "flush_reply", "commit"}
    /\ pc' = [pc EXCEPT ![s] = "ended"]
    /\ UNCHANGED <<connVars, rateVars, pipeVars, dbVars, now, cur, hist, admitted,
                   frames>>

\* The commit of a batch raises because the storage fails: as in
\* WriteBatchFail, nothing catches the exception and the task ends.
WriteBatchError ==
    /\ pp = "write"
    /\ pp' = "dead"
    /\ batch' = <<>>
    /\ UNCHANGED <<pc, connVars, rateVars, dbVars, now, cur, hist, admitted, frames,
                   queue, writes, enq>>

\* Time passes.
Tick ==
    /\ now < MaxTime
    /\ now' = now + 1
    /\ UNCHANGED <<pc, connVars, rateVars, pipeVars, dbVars, cur, hist, admitted,
                   frames>>

ConnNext ==
    \/ Startup
    \/ Wake
    \/ \E s \in Sessions : Accept(s)
    \/ \E s \in Sessions : ConnectLocked(s)
    \/ \E s \in Sessions : CloseOverCap(s)
    \/ \E s \in Sessions : UserCheck(s)
    \/ \E s \in Sessions : RecvDisconnect(s)
    \/ \E s \in Sessions : DisconnectResume(s)
    \/ \E s \in Sessions : Collect(s)

\* The registry alone: sessions connect and disconnect, no message is sent.
SpecConn == Init /\ [][ConnNext]_vars

\* The steps of the program for the sessions of T, with random.choice
\* drawing from R.
PipeSteps(T, R) ==
    \/ Startup
    \/ Wake
    \/ WriteBatch
    \/ Tick
    \/ \E s \in T : Accept(s)
    \/ \E s \in T : ConnectLocked(s)
    \/ \E s \in T : UserCheck(s)
    \/ \E s \in T : PutResume(s)
    \/ \E s \in T : FlushUser(s)
    \/ \E s \in T, r \in R : FlushReply(s, r)
    \/ \E s \in T : Commit(s)
    \/ \E s \in T : SendUser(s)
    \/ \E s \in T : SendReply(s)
    \/ \E s \in T : SendError(s)

\* One session of user 1 talks, a second session of user 1 is open beside
\* it.  The storage and the transport do not fail and every text fits the
\* column.
Next ==
    \/ PipeSteps({1, 2}, Responses)
    \/ RecvText(1, MaxContentLen, MaxMsgs)
Spec == Init /\ [][Next]_vars

\* A session of user 1 and a session of user 2 talk.  Their clients take
\* turns: a text frame arrives while the other session waits in receive_text
\* (or has not got there yet).
Quiet(s) == pc[s] \in {"new", "accepted", "usercheck", "receive"}
RateNext ==
    \/ PipeSteps({1, 4}, {1})
    \/ Quiet(4) /\ RecvText(1, MaxContentLen, MaxMsgs)
    \/ Quiet(1) /\ RecvText(4, MaxContentLen, MaxPeerMsgs)
SpecRate == Init /\ [][RateNext]_vars

\* One session whose client also sends text longer than the column.
BigNext ==
    \/ PipeSteps({1}, {1})
    \/ \E c \in Contents : RecvText(1, c, MaxMsgs)
    \/ FlushFail(1)
    \/ WriteBatchFail
SpecBig == Init /\ [][BigNext]_vars

\* A session of a user that is not in the user table connects beside a
\* session that talks; the clients of both send text frames whenever their
\* session is in receive_text.
UnknownNext ==
    \/ PipeSteps({1, 5}, {1})
    \/ \E s \in {1, 5} : RecvText(s, MaxContentLen, MaxMsgs)
SpecUnknown == Init /\ [][UnknownNext]_vars

\* The steps that the event loop runs without waiting for a client: the
\* process_messages task, and the coroutine of session s between two
\* receive_text calls.
TaskRuns == Startup \/ Wake \/ WriteBatch
SessionRuns(s) ==
    \/ Accept(s) \/ ConnectLocked(s) \/ UserCheck(s) \/ PutResume(s)
    \/ FlushUser(s) \/ FlushReply(s, 1) \/ Commit(s)
    \/ SendUser(s) \/ SendReply(s) \/ SendError(s)

\* One session talks.  The event loop is fair: a coroutine that can run is
\* run, the sleep of process_messages ends, and the storage and the
\* transport answer.  Nothing obliges the client to send.
FairNext ==
    \/ PipeSteps({1}, {1})
    \/ RecvText(1, MaxContentLen, MaxMsgs)
SpecFair ==
    Init /\ [][FairNext]_vars /\ WF_vars(TaskRuns) /\ WF_vars(SessionRuns(1))

\* Three sessions of user 1 connect and one of them talks, with a storage
\* that can fail at any call.
FaultNext ==
    \/ PipeSteps({1, 2, 3}, {1})
    \/ RecvText(1, MaxContentLen, MaxMsgs)
    \/ SyncWriteFail(1)
    \/ WriteBatchError
    \/ \E s \in {1, 2, 3} : CloseOverCap(s)
    \/ \E s \in {1, 2, 3} : Collect(s)
SpecFault == Init /\ [][FaultNext]_vars

\* Three sessions of user 1: two talk in turn, and any of them may find its
\* client gone when it next calls receive_text.  A session whose coroutine
\* has ended, or waits for the lock of the registry, is handling no message.
Idle(s) == Quiet(s) \/ pc[s] \in {"closing", "discwait", "ended"}
DiscNext ==
    \/ PipeSteps({1, 2, 3}, {1})
    \/ Idle(2) /\ RecvText(1, MaxContentLen, MaxDiscMsgs)
    \/ Idle(1) /\ RecvText(2, MaxContentLen, MaxDiscMsgs)
    \/ \E s \in {1, 2, 3} : CloseOverCap(s)
    \/ \E s \in {1, 2, 3} : RecvDisconnect(s)
    \/ \E s \in {1, 2, 3} : DisconnectResume(s)
SpecDisc == Init /\ [][DiscNext]_vars

\* Two sessions of user 1 talk.  add_message suspends at queue.put and
\* nowhere else, so a call of one session meets a call of the other either
\* suspended there or not begun: a text frame of one session arrives while
\* the other waits in receive_text or in queue.put.
Outside(s) == Quiet(s) \/ pc[s] = "put"
RaceNext ==
    \/ PipeSteps({1, 2}, {1})
    \/ Outside(2) /\ RecvText(1, MaxContentLen, MaxRaceMsgs)
    \/ Outside(1) /\ RecvText(2, MaxContentLen, MaxRaceMsgs)
SpecRace == Init /\ [][RaceNext]_vars

\* ================================================================ claims

\* ---- the registry
\* The sessions of user u for which connect returned True and whose
\* websocket_endpoint has not ended (by a disconnect or otherwise).
OpenSessions(u) ==
    {s \in Sessions : SessUser[s] = u /\ connResult[s] = "true" /\ pc[s] # "ended"}

C1_Cap == \A u \in Users : Cardinality(OpenSessions(u)) <= MaxConnections

\* A connect that reaches its cap check while the user has MaxConnections
\* open sessions is refused, and nothing of the others changes.
C1_Refuse ==
    \A s \in Sessions :
        LET u == SessUser[s]
        IN (/\ pc[s] = "accepted"
            /\ pc'[s] # "accepted"
            /\ Cardinality(OpenSessions(u)) = MaxConnections)
           => /\ pc'[s] = "closing"
              /\ connResult'[s] # "true"
              /\ OpenSessions(u) \subseteq connections'[u]
              /\ \A t \in Sessions \ {s} :
                    pc'[t] = pc[t] /\ closeCode'[t] = closeCode[t]

\* The refused connect closes its own websocket with 1008 and returns False.
C1_Close ==
    \A s \in Sessions :
        (pc[s] = "closing" /\ pc'[s] # "closing")
        => /\ connResult'[s] = "false"
           /\ closeCode'[s] = 1008
           /\ connections' = connections
           /\ \A t \in Sessions \ {s} :
                 pc'[t] = pc[t] /\ closeCode'[t] = closeCode[t]

\* C1: no user ever has more than MaxConnections (5 in the code) sessions
\* that connect admitted and that are still open; a connect made while the
\* user has that many is closed with code 1008 and returns False, and the
\* open sessions stay registered and open.
C1_ConnectionCap == []C1_Cap /\ [][C1_Refuse /\ C1_Close]_vars

\* A connect was refused with 1008 while the user's MaxConnections admitted
\* sessions are open and registered.
C1_Witness ==
    \E s \in Sessions :
        /\ connResult[s] = "false"
        /\ closeCode[s] = 1008
        /\ Cardinality(OpenSessions(SessUser[s])) = MaxConnections
        /\ OpenSessions(SessUser[s]) \subseteq connections[SessUser[s]]

\* disconnect as a function of the registry.
DisconnectOf(conns, s) == [conns EXCEPT ![SessUser[s]] = conns[SessUser[s]] \ {s}]

\* A step in which disconnect(s) runs takes s, and only s, out of its user's
\* set, and touches no other session.
C10_Step ==
    \A s \in Sessions :
        (pc[s] \in {"receive", "discwait"} /\ pc'[s] = "ended")
        => /\ connections' = DisconnectOf(connections, s)
           /\ \A t \in Sessions \ {s} :
                 /\ pc'[t] = pc[t]
                 /\ closeCode'[t] = closeCode[t]
                 /\ frames'[t] = frames[t]

\* On every registry the program reaches: disconnect of an absent session
\* changes nothing, and disconnect twice is disconnect once.
C10_Absent ==
    \A s \in Sessions :
        /\ Disconnected(s) = DisconnectOf(connections, s)
        /\ s \notin connections[SessUser[s]] => Disconnected(s) = connections
        /\ [Disconnected(s) EXCEPT ![SessUser[s]] = DisconnectRefs(@, s)]
              = Disconnected(s)

\* C10: disconnect(session, user_id) removes that session from that user's
\* set and nothing else; for an absent session it changes nothing, so
\* disconnect twice equals disconnect once.
C10_DisconnectFrame == []C10_Absent /\ [][C10_Step]_vars

\* A session has disconnected while another session of its user stays
\* registered and open.
C10_Witness ==
    \E s, t \in Sessions :
        /\ s # t
        /\ SessUser[s] = SessUser[t]
        /\ pc[s] = "ended" /\ connResult[s] = "true" /\ closeCode[s] = 0
        /\ s \notin connections[SessUser[s]]
        /\ pc[t] = "receive" /\ t \in connections[SessUser[t]]

\* ---- the rate limit
\* The text frames of session s that add_message admitted, and refused.
Admitted(s) == {i \in 1..Len(hist[s]) : hist[s][i].ok}
Refused(s) == {i \in 1..Len(hist[s]) : ~hist[s][i].ok}

\* C2: within one window add_message admits at most RateLimit (100 in the
\* code) messages of a user: the first RateLimit calls are admitted and the
\* next one returns False.
C2_AtMostLimit == \A u \in Users : admitted[u] <= RateLimit

\* A step in which session s receives a text frame and calls add_message.
IsCall(s) == pc[s] = "receive" /\ Len(hist'[s]) = Len(hist[s]) + 1

\* A call that arrives more than a minute after last_cleanup clears every
\* counter before its own check: it is admitted and counted, every other
\* user's counter is zero after it, and last_cleanup is the time of the call.
C3_Reset ==
    \A s \in Sessions :
        (IsCall(s) /\ now - last_cleanup > 1)
        => /\ last_cleanup' = now
           /\ hist'[s][Len(hist'[s])].ok
           /\ rate_limits'[SessUser[s]] = 1
           /\ \A u \in Users \ {SessUser[s]} : rate_limits'[u] = 0

\* In any other step no counter decreases and last_cleanup stays.
C3_Lazy ==
    (~ \E s \in Sessions : IsCall(s) /\ now - last_cleanup > 1)
    => /\ last_cleanup' = last_cleanup
       /\ \A u \in Users : rate_limits'[u] >= rate_limits[u]

\* C3: the reset of the rate limit is global and lazy: an add_message call
\* of any user that arrives more than 1 minute after last_cleanup sets every
\* user's counter to zero and last_cleanup to now before its own admission
\* check; no other step lowers a counter.
C3_GlobalLazyReset == [][C3_Reset /\ C3_Lazy]_vars

\* User 1 was refused, and its counter was then cleared by a call of user 2:
\* user 1 has made no admitted call since the reset.
C3_Witness ==
    /\ Refused(1) # {}
    /\ last_cleanup > 0
    /\ rate_limits[1] = 0
    /\ rate_limits[2] = 1

\* No queue entry and no row belongs to a refused text frame.
C4_NoTrace ==
    \A s \in Sessions : \A i \in Refused(s) :
        /\ \A k \in 1..Len(enq) : ~(enq[k].websocket = s /\ enq[k].seq = i)
        /\ \A k \in 1..Len(queue) : ~(queue[k].websocket = s /\ queue[k].seq = i)
        /\ \A k \in 1..Len(batch) : ~(batch[k].websocket = s /\ batch[k].seq = i)
        /\ \A k \in 1..Len(storage) : ~(storage[k].ws = s /\ storage[k].seq = i)

\* The call that refuses changes neither the queue, nor the user's counter,
\* nor the storage.
C4_Step ==
    \A s \in Sessions :
        (IsCall(s) /\ ~hist'[s][Len(hist'[s])].ok)
        => /\ queue' = queue
           /\ enq' = enq
           /\ batch' = batch
           /\ storage' = storage
           /\ nextId' = nextId
           /\ rate_limits'[SessUser[s]] = rate_limits[SessUser[s]]

\* C4: a message that the rate limit refuses leaves the queue, the user's
\* counter and the storage as they were: it is never queued, never written
\* by either path, and gets no reply.
C4_RefusedNoEffect == []C4_NoTrace /\ [][C4_Step]_vars

\* A text frame was refused and its session is back in receive_text.
C4_Witness == \E s \in Sessions : Refused(s) # {} /\ pc[s] = "receive"

ErrIdx(s) == {k \in 1..Len(frames[s]) : frames[s][k] = ErrorFrame}

\* Each refusal has sent one error frame to its session once the send is
\* done, and the session is open and registered.
C5_Inv ==
    \A s \in Sessions :
        /\ Cardinality(ErrIdx(s)) =
              Cardinality(Refused(s)) - (IF pc[s] = "senderr" THEN 1 ELSE 0)
        /\ Refused(s) # {} =>
              /\ pc[s] # "ended"
              /\ closeCode[s] = 0
              /\ s \in connections[SessUser[s]]

\* The send of the error frame appends that one frame to its session, to no
\* other, and the session goes back to receive_text.
C5_Step ==
    \A s \in Sessions :
        (pc[s] = "senderr" /\ pc'[s] # "senderr")
        => /\ frames'[s] = Append(frames[s], ErrorFrame)
           /\ pc'[s] = "receive"
           /\ connections' = connections
           /\ \A t \in Sessions \ {s} : frames'[t] = frames[t]

\* C5: on a refusal the originating session, and only it, gets exactly one
\* {error: "Rate limit exceeded"} frame; the session stays open and
\* registered and goes on to receive its next frame.
C5_ErrorFrame == []C5_Inv /\ [][C5_Step]_vars

\* A session got the error frame and, after the window was reset, the two
\* frames of a later message.
C5_Witness ==
    \E s \in Sessions : \E i, j \in 1..Len(frames[s]) :
        /\ i < j
        /\ frames[s][i] = ErrorFrame
        /\ frames[s][j] # ErrorFrame
        /\ pc[s] = "receive"
        /\ last_cleanup > 0

\* ---- the synchronous path
MsgFrames(s) == SelectSeq(frames[s], LAMBDA f : f # ErrorFrame)
AdmittedSeq(s) == SelectSeq(hist[s], LAMBDA h : h.ok)
StoredRows == {storage[k] : k \in 1..Len(storage)}

\* C6: every admitted text frame gives its session exactly two frames, and
\* no other session any: first the user message (is_from_user true, the
\* content received), then the reply (is_from_user false, one of the canned
\* replies), the reply's id above the user message's, the ids of the
\* session's frames strictly increasing, each the id of a stored row.
C6_TwoFrames ==
    \A s \in Sessions :
        LET M == MsgFrames(s)
            A == AdmittedSeq(s)
        IN /\ Len(M) <= 2 * Len(A)
           /\ pc[s] = "receive" => Len(M) = 2 * Len(A)
           /\ \A k \in 1..Len(M) :
                 /\ M[k].user_id = SessUser[s]
                 /\ k % 2 = 1 =>
                       /\ M[k].is_from_user = TRUE
                       /\ M[k].content = A[(k + 1) \div 2].content
                 /\ k % 2 = 0 =>
                       /\ M[k].is_from_user = FALSE
                       /\ M[k].content \in 1..NumResponses
                       /\ M[k].id > M[k - 1].id
                 /\ k > 1 => M[k].id > M[k - 1].id
                 /\ \E r \in StoredRows :
                       /\ r.id = M[k].id
                       /\ r.content = M[k].content
                       /\ r.is_from_user = M[k].is_from_user

\* A session has got the four frames of two messages.
C6_Witness ==
    \E s \in Sessions :
        /\ pc[s] = "receive"
        /\ Len(AdmittedSeq(s)) >= 2
        /\ Len(MsgFrames(s)) = 2 * Len(AdmittedSeq(s))

\* ---- order within a session
EnqOf(s) == SelectSeq(enq, LAMBDA t : t.websocket = s)
RowsOf(s, path) == SelectSeq(storage, LAMBDA r : r.ws = s /\ r.path = path)
SeqOfId(id) == (CHOOSE r \in StoredRows : r.id = id).seq
Handling == {"put", "flush_user", "flush_reply", "commit", "send_user", "send_reply"}

\* C7: a session handles its text frames one at a time in the order
\* received: their tasks are queued in that order, their synchronous rows
\* and their batch rows are stored in that order, their frames are sent in
\* that order, and the next frame is not begun before the one in hand is
\* done, also while its put waits on the full queue.
C7_SessionOrder ==
    \A s \in Sessions :
        LET E == EnqOf(s)
            S == RowsOf(s, "sync")
            B == RowsOf(s, "batch")
            M == MsgFrames(s)
        IN /\ \A k \in 1..Len(E) : k > 1 => E[k - 1].seq < E[k].seq
           /\ \A k \in 1..Len(S) :
                 /\ k > 1 => S[k - 1].seq <= S[k].seq
                 /\ S[k].is_from_user = (k % 2 = 1)
                 /\ k % 2 = 0 => S[k].seq = S[k - 1].seq
           /\ \A k \in 1..Len(B) : k > 1 => B[k - 1].seq < B[k].seq
           /\ \A k \in 1..Len(M) : k > 1 => SeqOfId(M[k - 1].id) <= SeqOfId(M[k].id)
           /\ pc[s] \in Handling => cur[s].seq = Len(hist[s])
           /\ \A i \in Admitted(s) : i < Len(hist[s]) =>
                 /\ \E k \in 1..Len(E) : E[k].seq = i
                 /\ \E k \in 1..Len(S) : S[k].seq = i /\ ~S[k].is_from_user
                 /\ \E k \in 1..Len(M) : SeqOfId(M[k].id) = i /\ ~M[k].is_from_user

\* A session's put waits on the full queue with the session's earlier
\* messages done, and two batch rows of a session are stored.
C7_Witness ==
    \E s \in Sessions :
        /\ pc[s] = "put"
        /\ Len(RowsOf(s, "batch")) >= 2
        /\ Admitted(s) \ {Len(hist[s])} # {}

\* ---- the batch writer
NBatchRows(st) == Len(SelectSeq(st, LAMBDA r : r.path = "batch"))

C8_Inv ==
    /\ Len(batch) <= BatchSize
    /\ pp = "write" => Len(batch) >= 1
    /\ pp = "sleep" => batch = <<>>
    /\ \A k \in 1..Len(writes) : Len(writes[k]) >= 1 /\ Len(writes[k]) <= BatchSize

\* A drain takes the head of the queue, up to BatchSize tasks or until the
\* queue is empty, and goes on to the write.
C8_Drain ==
    Len(queue') < Len(queue)
    => /\ batch' \o queue' = queue
       /\ pp' = "write"
       /\ Len(batch') = BatchSize \/ queue' = <<>>

\* Leaving the write appends one row per task of the batch, in order, in one
\* write; a step of the task from any other place writes nothing.
C8_Write ==
    /\ (pp = "write" /\ (pp' # pp \/ batch' # batch \/ writes' # writes))
       => /\ writes' = Append(writes, batch)
          /\ Len(storage') = Len(storage) + Len(batch)
          /\ SubSeq(storage', 1, Len(storage)) = storage
          /\ \A k \in 1..Len(batch) :
                LET r == storage'[Len(storage) + k]
                IN /\ r.path = "batch"
                   /\ r.is_from_user = TRUE
                   /\ r.ws = batch[k].websocket /\ r.seq = batch[k].seq
                   /\ r.user_id = batch[k].user_id /\ r.content = batch[k].content
    /\ (pp # "write" /\ (pp' # pp \/ batch' # batch))
       => writes' = writes /\ storage' = storage
    /\ NBatchRows(storage') > NBatchRows(storage) => pp = "write"

\* An empty drain writes nothing and sleeps.
C8_Empty ==
    (queue = <<>> /\ pp' # pp) => (pp' = "sleep" /\ batch' = <<>>)

\* C8: each cycle of process_messages drains between 0 and BatchSize (10 in
\* the code) tasks; a drain of 1 or more issues exactly one write, of exactly
\* the drained tasks; an empty drain issues none and sleeps.
C8_BoundedBatch == []C8_Inv /\ [][C8_Drain /\ C8_Write /\ C8_Empty]_vars

\* A drain stopped at BatchSize tasks with more in the queue, after an
\* earlier batch was written.
C8_Witness ==
    /\ Len(writes) >= 1
    /\ pp = "write"
    /\ Len(batch) = BatchSize
    /\ queue # <<>>

\* ---- the content limit
\* C9: a text frame longer than the column (500) is refused at admission: it
\* is never queued and never reaches a write.
C9_OversizeRefused ==
    /\ \A s \in Sessions : \A i \in 1..Len(hist[s]) :
          hist[s][i].content > MaxContentLen => ~hist[s][i].ok
    /\ \A k \in 1..Len(enq) : enq[k].content <= MaxContentLen

\* ---- the unknown user
\* C11: a session opened with a user_id that is not in the user table is
\* closed with code 1008 after the lookup and never reaches receive_text: no
\* text frame of it is received, counted, queued, stored or answered.
C11_UnknownUser ==
    \A s \in Sessions :
        SessUser[s] \notin KnownUsers =>
            /\ pc[s] \in {"new", "accepted", "closing", "usercheck", "ended"}
            /\ pc[s] = "ended" => closeCode[s] = 1008
            /\ hist[s] = <<>>
            /\ frames[s] = <<>>
            /\ cur[s] = NoMsg
            /\ rate_limits[SessUser[s]] = 0
            /\ \A k \in 1..Len(enq) : enq[k].websocket # s
            /\ \A k \in 1..Len(storage) :
                  storage[k].ws # s /\ storage[k].user_id # SessUser[s]

\* The session of the unknown user was closed with 1008 while the session
\* beside it has had a message answered.
C11_Witness ==
    \E s, t \in Sessions :
        /\ SessUser[s] \notin KnownUsers
        /\ pc[s] = "ended" /\ closeCode[s] = 1008 /\ connResult[s] = "true"
        /\ Len(MsgFrames(t)) >= 2

\* ---- the queue
RECURSIVE Flatten(_)
Flatten(ss) == IF ss = <<>> THEN <<>> ELSE Head(ss) \o Flatten(Tail(ss))

\* Every task process_messages has taken from the queue, in the order
\* taken: the batches it wrote, then the batch in hand.
Dequeued == Flatten(writes) \o batch

C12_Inv ==
    /\ Len(Dequeued) <= Len(enq)
    /\ Dequeued = SubSeq(enq, 1, Len(Dequeued))
    /\ Dequeued \o queue = enq
    /\ \A i, j \in 1..Len(enq) : i # j => enq[i] # enq[j]

\* An add_message call, admitted or refused, with or without a reset of the
\* counters, leaves the queued tasks where they are; an admitted one adds its
\* own task at the tail.
C12_Step ==
    \A s \in Sessions :
        IsCall(s) =>
            /\ Len(queue') >= Len(queue)
            /\ SubSeq(queue', 1, Len(queue)) = queue
            /\ batch' = batch

\* C12: the queue is a FIFO across all users: the tasks dequeued so far are
\* a prefix of the tasks in the order their puts completed, the rest are
\* still queued in that order, no task is skipped, duplicated or overtaken,
\* and no refusal or reset of the counters removes a queued task.
C12_Fifo == []C12_Inv /\ [][C12_Step]_vars

\* Tasks of two users were queued, two batches were written, a text frame
\* was refused and the counters were reset, and a task is still queued.
C12_Witness ==
    /\ \E i, j \in 1..Len(enq) : i < j /\ enq[i].user_id # enq[j].user_id
    /\ Len(writes) >= 2
    /\ \E s \in Sessions : Refused(s) # {}
    /\ last_cleanup > 0
    /\ queue # <<>>

\* ---- backpressure
C13_Inv ==
    /\ Len(queue) <= QueueMaxsize
    /\ \A s \in Sessions :
          pc[s] = "put" =>
              /\ hist[s][Len(hist[s])].ok
              /\ cur[s].seq = Len(hist[s])
              /\ \A k \in 1..Len(enq) : enq[k] # TaskOf(s)

\* An admitted call that finds the queue full suspends with its task in
\* hand: nothing is queued, nothing is dropped, no frame is sent.  The call
\* that resumes puts that task at the tail and returns True.
C13_Step ==
    \A s \in Sessions :
        /\ (IsCall(s) /\ hist'[s][Len(hist'[s])].ok /\ Len(queue) = QueueMaxsize)
           => /\ pc'[s] = "put"
              /\ queue' = queue
              /\ cur'[s].content = hist'[s][Len(hist'[s])].content
              /\ frames' = frames
        /\ (IsCall(s) /\ hist'[s][Len(hist'[s])].ok /\ Len(queue) < QueueMaxsize)
           => pc'[s] = "flush_user" /\ Len(queue') = Len(queue) + 1
        /\ (pc[s] = "put" /\ pc'[s] # "put")
           => /\ Len(queue) < QueueMaxsize
              /\ queue' = Append(queue, TaskOf(s))
              /\ enq' = Append(enq, TaskOf(s))
              /\ pc'[s] = "flush_user"

\* A suspended put completes.
C13_Released == \A s \in Sessions : (pc[s] = "put") ~> (pc[s] = "flush_user")

\* C13: the queue never holds more than QueueMaxsize (1000 in the code)
\* tasks; an add_message call that passes the rate check while the queue is
\* full suspends its caller, without dropping the task or returning False;
\* once process_messages has drained a slot the call completes, the task is
\* queued and add_message returns True.
C13_Backpressure == []C13_Inv /\ [][C13_Step]_vars /\ C13_Released

\* An admitted call is suspended on the full queue.
C13_Witness ==
    \E s \in Sessions :
        pc[s] = "put" /\ Len(queue) = QueueMaxsize /\ hist[s][Len(hist[s])].ok

\* ---- a failed batch write
\* C14: a failed batch write loses that batch only; process_messages keeps
\* running, so the tasks queued after the failure are still drained and
\* written and the sessions waiting on the full queue are released.
C14_PersisterRuns == pp \in {"init", "sleep", "write"}

\* ---- the two paths to the storage
\* The tasks queued, and the rows stored, for text frame i of session s.
NEnq(s, i) ==
    Cardinality({k \in 1..Len(enq) : enq[k].websocket = s /\ enq[k].seq = i})
NRows(s, i, path, fromUser) ==
    Cardinality({k \in 1..Len(storage) :
                    /\ storage[k].ws = s /\ storage[k].seq = i
                    /\ storage[k].path = path
                    /\ storage[k].is_from_user = fromUser})

\* add_message has returned True for the frame in hand, or the frame is done.
Returned(s, i) == i < Len(hist[s]) \/ pc[s] # "put"
\* The synchronous block of the frame is past its commit.
Synced(s, i) == i < Len(hist[s]) \/ pc[s] \in {"send_user", "send_reply", "receive"}

C15_Inv ==
    \A s \in Sessions : \A i \in 1..Len(hist[s]) :
        /\ NEnq(s, i) <= 1
        /\ NRows(s, i, "sync", TRUE) <= 1
        /\ NRows(s, i, "sync", FALSE) <= 1
        /\ NRows(s, i, "batch", TRUE) <= 1
        /\ NRows(s, i, "batch", FALSE) = 0
        /\ (i \in Admitted(s) /\ Returned(s, i)) => NEnq(s, i) = 1
        /\ (i \in Admitted(s) /\ Synced(s, i)) =>
              NRows(s, i, "sync", TRUE) = 1 /\ NRows(s, i, "sync", FALSE) = 1
        /\ i \in Refused(s) => NEnq(s, i) = 0 /\ NRows(s, i, "sync", TRUE) = 0

\* Two rows with is_from_user true, one of each path, and one reply row.
Complete(s, i) ==
    /\ NRows(s, i, "sync", TRUE) + NRows(s, i, "batch", TRUE) = 2
    /\ NRows(s, i, "sync", FALSE) + NRows(s, i, "batch", FALSE) = 1

C15_Eventually ==
    \A s \in Sessions : \A i \in 1..MaxMsgs :
        (i \in Admitted(s)) ~> Complete(s, i)

\* C15: for every text frame that add_message admits, one task is queued
\* and one synchronous write of the user message is made; with a fair event
\* loop and a storage that does not fail, the storage comes to hold two
\* is_from_user rows for it, one of each path, and one reply row, and never
\* more.
C15_DualPersistence == []C15_Inv /\ C15_Eventually

\* Two text frames of a session have all their rows.
C15_Witness ==
    \E s \in Sessions : \E i, j \in Admitted(s) :
        i < j /\ Complete(s, i) /\ Complete(s, j)

\* ---- the end of a session
\* The receive step of session s has signalled the disconnect; the session
\* is closed once disconnect has run.
Signalled(s) == connResult[s] = "true" /\ pc[s] \in {"discwait", "ended"}
Closed(s) == connResult[s] = "true" /\ pc[s] = "ended"

C16_Inv ==
    \A s \in Sessions :
        /\ Closed(s) => s \notin connections[SessUser[s]]
        /\ Signalled(s) => cur[s] = NoMsg

\* After the signal the session receives no text frame, puts no task on the
\* queue, makes no synchronous write and gets no frame; it stays closed and
\* unregistered.  (A task it queued before may still be written by
\* process_messages.)
C16_Final ==
    \A s \in Sessions :
        Signalled(s) =>
            /\ pc'[s] \in {"discwait", "ended"}
            /\ pc[s] = "ended" => pc'[s] = "ended"
            /\ hist'[s] = hist[s]
            /\ frames'[s] = frames[s]
            /\ EnqOf(s)' = EnqOf(s)
            /\ RowsOf(s, "sync")' = RowsOf(s, "sync")
            /\ Len(RowsOf(s, "batch")') <= Len(EnqOf(s))

\* The step that signals the disconnect, and the step in which disconnect
\* runs, change nothing of any other session: not its place in the registry,
\* not the rate counters, not the message it is handling.
C16_Others ==
    \A s \in Sessions :
        (pc[s] \in {"receive", "discwait"} /\ pc'[s] \in {"discwait", "ended"}
         /\ pc'[s] # pc[s])
        => /\ rate_limits' = rate_limits /\ last_cleanup' = last_cleanup
           /\ queue' = queue /\ batch' = batch /\ storage' = storage
           /\ \A t \in Sessions \ {s} :
                 /\ pc'[t] = pc[t] /\ cur'[t] = cur[t]
                 /\ hist'[t] = hist[t] /\ frames'[t] = frames[t]
                 /\ closeCode'[t] = closeCode[t]
                 /\ (t \in connections'[SessUser[t]]) = (t \in connections[SessUser[t]])

\* C16: when the receive step of a session signals the disconnect the
\* session is unregistered; no further text frame of it is received, queued,
\* written or answered, the closed session is never reopened, and no other
\* session's registry entry, rate counter or message in hand is changed.
C16_DisconnectFinal == []C16_Inv /\ [][C16_Final /\ C16_Others]_vars

\* A session that had a message answered is closed, with a task of it still
\* queued, while another session of the user is registered and in the
\* middle of a message.
C16_Witness ==
    \E s, t \in Sessions :
        /\ s # t
        /\ Closed(s)
        /\ Len(MsgFrames(s)) >= 2
        /\ s \in Referenced
        /\ pc[t] \in Handling
        /\ t \in connections[SessUser[t]]

\* ---- sessions that end without disconnect
\* C17: a session that the server closed, or whose coroutine ended by an
\* error other than the disconnect signal, no longer counts against the cap
\* of its user: a connect made while the user has fewer than MaxConnections
\* (5 in the code) open sessions is admitted.
C17_ConnectBelowCap ==
    [][\A s \in Sessions :
          (/\ pc[s] = "accepted"
           /\ pc'[s] # "accepted"
           /\ Cardinality(OpenSessions(SessUser[s])) < MaxConnections)
          => pc'[s] = "usercheck" /\ connResult'[s] = "true"]_vars

\* ---- the synchronous commit
StoredIds == {storage[k].id : k \in 1..Len(storage)}

C18_Inv ==
    \A s \in Sessions :
        /\ \A k \in 1..Len(frames[s]) :
              frames[s][k] # ErrorFrame =>
                  \E r \in StoredRows :
                      /\ r.id = frames[s][k].id
                      /\ r.content = frames[s][k].content
                      /\ r.is_from_user = frames[s][k].is_from_user
                      /\ r.path = "sync"
        /\ \A i \in 1..Len(hist[s]) :
              NRows(s, i, "sync", FALSE) = NRows(s, i, "sync", TRUE)
        /\ pc[s] \in {"send_user", "send_reply"} =>
              cur[s].uid \in StoredIds /\ cur[s].rid \in StoredIds

\* The synchronous path stores the user row and the reply row of a message
\* in one step; a frame is sent only for a row stored before the send; a
\* storage call that raises stores no row and sends no frame.
C18_Step ==
    \A s \in Sessions :
        /\ RowsOf(s, "sync")' # RowsOf(s, "sync") =>
              /\ Len(storage') = Len(storage) + 2
              /\ SubSeq(storage', 1, Len(storage)) = storage
              /\ LET u == storage'[Len(storage) + 1]
                     r == storage'[Len(storage) + 2]
                 IN /\ u.is_from_user /\ ~r.is_from_user
                    /\ u.ws = s /\ r.ws = s /\ u.seq = r.seq
                    /\ u.id = cur[s].uid /\ r.id = cur[s].rid
              /\ frames' = frames
        /\ (frames'[s] # frames[s] /\ pc[s] # "senderr") =>
              /\ Len(frames'[s]) = Len(frames[s]) + 1
              /\ frames'[s][Len(frames'[s])].id \in StoredIds
              /\ storage' = storage
        /\ (pc[s] \in {"flush_user", "flush_reply", "commit"} /\ pc'[s] = "ended") =>
              storage' = storage /\ frames' = frames

\* C18: the user row and the reply row of the synchronous path are stored
\* together or not at all, and a frame is sent only after that commit: no
\* session gets a frame with the id of a row that is not stored, and no
\* reply row is stored without its user row.
C18_AtomicCommit == []C18_Inv /\ [][C18_Step]_vars

\* The commit of a session's message raised after both rows had their ids:
\* neither row is stored; an earlier message of the session has its two rows
\* and its two frames.
C18_Witness ==
    \E s \in Sessions :
        /\ pc[s] = "ended"
        /\ cur[s].uid # 0 /\ cur[s].rid # 0
        /\ cur[s].uid \notin StoredIds /\ cur[s].rid \notin StoredIds
        /\ Len(MsgFrames(s)) >= 2

\* ---- the rate check under concurrency
C19_Inv ==
    \A u \in Users :
        /\ rate_limits[u] = admitted[u]
        /\ rate_limits[u] <= RateLimit + 1

\* A call checks and counts in one step, on the counter as the calls before
\* it left it, the suspended ones included; no other step, and not the end
\* of a suspended put, writes a counter.
C19_Step ==
    /\ \A s \in Sessions :
          IsCall(s) =>
              LET u == SessUser[s]
                  before == IF now - last_cleanup > WindowMinutes
                            THEN 0 ELSE rate_limits[u]
                  ok == hist'[s][Len(hist'[s])].ok
              IN /\ ok = (before <= RateLimit)
                 /\ rate_limits'[u] = before + (IF ok THEN 1 ELSE 0)
    /\ (~ \E s \in Sessions : IsCall(s)) =>
          rate_limits' = rate_limits /\ admitted' = admitted

\* C19: the rate check and the increment of add_message are one step with
\* respect to the other sessions: each user's counter is the number of that
\* user's calls admitted since the last reset, a call suspended on the full
\* queue included, and never passes RateLimit + 1 (101 in the code), however
\* the sessions of the user interleave.
C19_AtomicCount == []C19_Inv /\ [][C19_Step]_vars

\* A call of one session is suspended on the full queue, and a call of
\* another session of the same user, made meanwhile, was refused on the
\* counter that includes the suspended call.
C19_Witness ==
    \E s, t \in Sessions :
        /\ s # t /\ SessUser[s] = SessUser[t]
        /\ pc[s] = "put"
        /\ pc[t] = "senderr"
        /\ rate_limits[SessUser[s]] = RateLimit + 1

====
